---- MODULE Spec2Model ----
(***************************************************************************)
(* Heading Analyzer (stra2.py): the extractor get_headings, the tree       *)
(* renderer build_tree and the "Analyze Headings" button handler with its  *)
(* batch loop and the session results.                                     *)
(*                                                                         *)
(* Python strings are sequences of one-character strings, so that strip,   *)
(* lower, upper, the \b word boundary and the line break are computed.     *)
(***************************************************************************)
EXTENDS Integers, Sequences, FiniteSets, TLC

VARIABLES
    \* ---- the button handler and the batch loop (stra2.py 90-141)
    pc,            \* "idle" | "loop" (between two fetches) | "fetching" (requests.get in flight)
    urls,          \* the collected URL list of the running batch
    idx,           \* position of the for loop in urls (1-based)
    kw,            \* keywords if enable_keyword_search else None, as the batch passes it to get_headings
    kwEnabled,     \* enable_keyword_search as the batch reads it
    data,          \* the accumulating list of rows
    structures,    \* the accumulating dict url -> structure
    session,       \* st.session_state['results'], NoResults when the key is absent
    notice,        \* the last st.warning / st.error of the handler
    fetchLog,      \* history: <<"start"|"end", url>> events of the running batch
    lastRet,       \* history: the last tuple returned by get_headings
    collected,     \* history: the URLs gathered before the dedup of line 106, in input order
    batches,       \* number of batches started in this session
    \* ---- build_tree applied to one structure (stra2.py 52-68)
    treeIn, treeOut,
    \* ---- get_headings applied to one response (stra2.py 9-50)
    exIn, exOut

vars == <<pc, urls, idx, kw, kwEnabled, data, structures, session, notice,
          fetchLog, lastRet, collected, batches, treeIn, treeOut, exIn, exOut>>

driverVars == <<pc, urls, idx, kw, kwEnabled, data, structures, session, notice,
                fetchLog, lastRet, collected, batches>>

----------------------------------------------------------------------------
(* Characters and strings *)

UpperChars == <<"A","B","C","D","E","F","G","H","I","J","K","L","M",
                "N","O","P","Q","R","S","T","U","V","W","X","Y","Z">>

LowerChars == <<"a","b","c","d","e","f","g","h","i","j","k","l","m",
                "n","o","p","q","r","s","t","u","v","w","x","y","z">>

DigitChars == <<"0","1","2","3","4","5","6","7","8","9">>

Range(s) == {s[i] : i \in DOMAIN s}

\* str.lower / str.upper on one character
LowerChar(c) ==
    IF c \in Range(UpperChars)
    THEN LowerChars[CHOOSE i \in DOMAIN UpperChars : UpperChars[i] = c]
    ELSE c

UpperChar(c) ==
    IF c \in Range(LowerChars)
    THEN UpperChars[CHOOSE i \in DOMAIN LowerChars : LowerChars[i] = c]
    ELSE c

Lower(s) == [i \in DOMAIN s |-> LowerChar(s[i])]

Upper(s) == [i \in DOMAIN s |-> UpperChar(s[i])]

\* int() of one digit character
DigitVal(c) == (CHOOSE i \in DOMAIN DigitChars : DigitChars[i] = c) - 1

\* the characters str.strip() removes
IsSpace(c) == c \in {" ", "\n", "\t"}

\* the characters the regex class \w matches
IsWordChar(c) == c \in Range(UpperChars) \cup Range(LowerChars) \cup Range(DigitChars) \cup {"_"}

RECURSIVE LStrip(_)
LStrip(s) == IF s # <<>> /\ IsSpace(Head(s)) THEN LStrip(Tail(s)) ELSE s

RECURSIVE RStrip(_)
RStrip(s) ==
    IF s # <<>> /\ IsSpace(s[Len(s)]) THEN RStrip(SubSeq(s, 1, Len(s) - 1)) ELSE s

\* str.strip()
Strip(s) == RStrip(LStrip(s))

\* str.split(sep) for a one-character separator
RECURSIVE SplitFrom(_, _, _, _)
SplitFrom(s, sep, cur, acc) ==
    IF s = <<>> THEN Append(acc, cur)
    ELSE IF Head(s) = sep THEN SplitFrom(Tail(s), sep, <<>>, Append(acc, cur))
    ELSE SplitFrom(Tail(s), sep, Append(cur, Head(s)), acc)

Split(s, sep) == SplitFrom(s, sep, <<>>, <<>>)

\* sep.join(parts)
RECURSIVE Join(_, _)
Join(parts, sep) ==
    IF parts = <<>> THEN <<>>
    ELSE IF Len(parts) = 1 THEN parts[1]
    ELSE parts[1] \o <<sep>> \o Join(Tail(parts), sep)

SeqsUpTo(S, n) == UNION {[1..k -> S] : k \in 0..n}

RECURSIVE Concat(_)
Concat(ss) == IF ss = <<>> THEN <<>> ELSE Head(ss) \o Concat(Tail(ss))

\* n copies of the string s: s * n
RECURSIVE Repeat(_, _)
Repeat(s, n) == IF n <= 0 THEN <<>> ELSE s \o Repeat(s, n - 1)

\* the list without its duplicates, first occurrences kept in order
RECURSIVE Distinct(_)
Distinct(s) ==
    IF s = <<>> THEN <<>>
    ELSE LET r == Distinct(SubSeq(s, 1, Len(s) - 1))
         IN IF s[Len(s)] \in Range(r) THEN r ELSE Append(r, s[Len(s)])

\* every ordering of a finite set as a list
Orderings(S) ==
    {f \in [1..Cardinality(S) -> S] : \A x \in S : \E i \in DOMAIN f : f[i] = x}

----------------------------------------------------------------------------
(* Literals of the program *)

NoTitle == <<"N","o"," ","T","i","t","l","e">>
NoMetaDescription == <<"N","o"," ","M","e","t","a"," ","D","e","s","c","r","i","p","t","i","o","n">>
ErrorText == <<"E","r","r","o","r">>

H1 == <<"H","1">>
H2 == <<"H","2">>
H3 == <<"H","3">>
H4 == <<"H","4">>
H5 == <<"H","5">>
H6 == <<"H","6">>

LevelTags == <<H1, H2, H3, H4, H5, H6>>

\* the tag names given to soup.find_all
HeadingNames == {<<"h","1">>, <<"h","2">>, <<"h","3">>, <<"h","4">>, <<"h","5">>, <<"h","6">>}

ColURL == <<"U","R","L">>
ColTitle == <<"T","i","t","l","e">>
ColStatus == <<"H","T","T","P"," ","S","t","a","t","u","s">>
ColMeta == <<"M","e","t","a"," ","D","e","s","c","r","i","p","t","i","o","n">>
ColTotal == <<"T","o","t","a","l"," ","H","e","a","d","i","n","g","s">>

----------------------------------------------------------------------------
(* Dictionaries: functions on the set of their keys *)

EmptyDict == [k \in {} |-> 0]

DictSet(d, k, v) == [x \in DOMAIN d \cup {k} |-> IF x = k THEN v ELSE d[x]]

\* dict.get(k, default), and getattr(obj, k, default) on an object's attributes
DictGet(d, k, default) == IF k \in DOMAIN d THEN d[k] ELSE default

\* None as an object: it has no attribute
NoneObject == EmptyDict

\* the optional keywords argument of get_headings: None, or a list
KeywordsNone == [given |-> FALSE, list |-> <<>>]
KeywordsList(l) == [given |-> TRUE, list |-> l]

----------------------------------------------------------------------------
(* get_headings (stra2.py 9-50) *)

\* A parsed document is the sequence of its elements in document order; an
\* element is [name, attrs, text]. A fetch outcome is either
\*   [raises |-> FALSE, status_code, doc]   requests.get and raise_for_status return
\*   [raises |-> TRUE, response]            a RequestException e, response = e.response

\* soup.find_all(['h1', ..., 'h6'])
FindHeadings(doc) == SelectSeq(doc, LAMBDA el : el.name \in HeadingNames)

\* soup.find(name): the index of the first element with that name, 0 when none
FindFirst(doc, P(_)) ==
    IF \E i \in DOMAIN doc : P(doc[i])
    THEN CHOOSE i \in DOMAIN doc : P(doc[i]) /\ \A j \in 1..(i - 1) : ~P(doc[j])
    ELSE 0

Description == <<"d","e","s","c","r","i","p","t","i","o","n">>

PageTitle(doc) ==
    LET i == FindFirst(doc, LAMBDA el : el.name = <<"t","i","t","l","e">>)
    IN IF i # 0 THEN Strip(doc[i].text) ELSE NoTitle

MetaDesc(doc) ==
    LET i == FindFirst(doc, LAMBDA el : el.name = <<"m","e","t","a">>
                                       /\ DictGet(el.attrs, "name", <<>>) = Description)
    IN IF i # 0 /\ "content" \in DOMAIN doc[i].attrs
       THEN Strip(doc[i].attrs["content"])
       ELSE NoMetaDescription

ZeroCounts == [t \in Range(LevelTags) |-> 0]

\* HeadingLoop with headings of empty text left out of total and structure
RECURSIVE HeadingLoop_SkipEmpty(_, _)
HeadingLoop_SkipEmpty(headings, acc) ==
    IF headings = <<>> THEN acc
    ELSE LET h == Head(headings)
             tag == Upper(h.name)
             next == IF tag \in DOMAIN acc.counts
                     THEN [counts |-> [acc.counts EXCEPT ![tag] = @ + 1],
                           total |-> IF Strip(h.text) # <<>> THEN acc.total + 1 ELSE acc.total,
                           structure |-> IF Strip(h.text) # <<>>
                                         THEN Append(acc.structure, <<tag, Strip(h.text)>>)
                                         ELSE acc.structure]
                     ELSE acc
         IN HeadingLoop_SkipEmpty(Tail(headings), next)

\* the loop over headings: counts, total and structure
RECURSIVE HeadingLoop(_, _)
HeadingLoop(headings, acc) ==
    IF headings = <<>> THEN acc
    ELSE LET h == Head(headings)
             tag == Upper(h.name)
             next == IF tag \in DOMAIN acc.counts
                     THEN [counts |-> [acc.counts EXCEPT ![tag] = @ + 1],
                           total |-> acc.total + 1,
                           structure |-> Append(acc.structure, <<tag, Strip(h.text)>>)]
                     ELSE acc
         IN HeadingLoop(Tail(headings), next)

\* soup.get_text(): the text of every element, concatenated
GetText(doc) == Concat([i \in DOMAIN doc |-> doc[i].text])

\* the regex \b at position p of text (between the characters p-1 and p)
WordBoundary(text, p) ==
    LET before == p > 1 /\ IsWordChar(text[p - 1])
        after == p <= Len(text) /\ IsWordChar(text[p])
    IN before # after

\* MatchAt without the two \b: a plain substring match
MatchAt_Substring(text, lit, p) ==
    /\ p + Len(lit) - 1 <= Len(text)
    /\ SubSeq(text, p, p + Len(lit) - 1) = lit

\* r'\b' + re.escape(lit) + r'\b' matches at position p
MatchAt(text, lit, p) ==
    /\ p + Len(lit) - 1 <= Len(text)
    /\ WordBoundary(text, p)
    /\ SubSeq(text, p, p + Len(lit) - 1) = lit
    /\ WordBoundary(text, p + Len(lit))

\* len(re.findall(pattern, text)): non-overlapping matches, scanned left to right
RECURSIVE FindAllFrom(_, _, _)
FindAllFrom(text, lit, p) ==
    IF p > Len(text) THEN 0
    ELSE IF MatchAt(text, lit, p) THEN 1 + FindAllFrom(text, lit, p + Len(lit))
    ELSE FindAllFrom(text, lit, p + 1)

CountKeyword(text_content, keyword) == FindAllFrom(text_content, Lower(keyword), 1)

\* KeywordLoop with the count stored under the lower-cased keyword
RECURSIVE KeywordLoop_LowerKey(_, _, _)
KeywordLoop_LowerKey(keywords, text_content, keyword_counts) ==
    IF keywords = <<>> THEN keyword_counts
    ELSE LET keyword == Head(keywords)
         IN KeywordLoop_LowerKey(Tail(keywords), text_content,
                IF Strip(keyword) # <<>>
                THEN DictSet(keyword_counts, Lower(keyword), CountKeyword(text_content, keyword))
                ELSE keyword_counts)

RECURSIVE KeywordLoop(_, _, _)
KeywordLoop(keywords, text_content, keyword_counts) ==
    IF keywords = <<>> THEN keyword_counts
    ELSE LET keyword == Head(keywords)
         IN KeywordLoop(Tail(keywords), text_content,
                        IF Strip(keyword) # <<>>
                        THEN DictSet(keyword_counts, keyword, CountKeyword(text_content, keyword))
                        ELSE keyword_counts)

KeywordCounts(doc, keywords) ==
    IF keywords.given /\ keywords.list # <<>>
    THEN KeywordLoop(keywords.list, Lower(GetText(doc)), EmptyDict)
    ELSE EmptyDict

\* get_headings with the status of a failure always 0
get_headings_StatusZero(url, keywords, outcome) ==
    IF ~outcome.raises
    THEN LET acc == HeadingLoop(FindHeadings(outcome.doc),
                                [counts |-> ZeroCounts, total |-> 0, structure |-> <<>>])
         IN [total |-> acc.total,
             counts |-> acc.counts,
             structure |-> acc.structure,
             page_title |-> PageTitle(outcome.doc),
             status_code |-> outcome.status_code,
             meta_desc |-> MetaDesc(outcome.doc),
             keyword_counts |-> KeywordCounts(outcome.doc, keywords)]
    ELSE [total |-> 0,
          counts |-> EmptyDict,
          structure |-> <<>>,
          page_title |-> ErrorText,
          status_code |-> 0,
          meta_desc |-> ErrorText,
          keyword_counts |-> EmptyDict]

get_headings(url, keywords, outcome) ==
    IF ~outcome.raises
    THEN LET acc == HeadingLoop(FindHeadings(outcome.doc),
                                [counts |-> ZeroCounts, total |-> 0, structure |-> <<>>])
         IN [total |-> acc.total,
             counts |-> acc.counts,
             structure |-> acc.structure,
             page_title |-> PageTitle(outcome.doc),
             status_code |-> outcome.status_code,
             meta_desc |-> MetaDesc(outcome.doc),
             keyword_counts |-> KeywordCounts(outcome.doc, keywords)]
    ELSE [total |-> 0,
          counts |-> EmptyDict,
          structure |-> <<>>,
          page_title |-> ErrorText,
          status_code |-> DictGet(outcome.response, "status_code", 0),
          meta_desc |-> ErrorText,
          keyword_counts |-> EmptyDict]

----------------------------------------------------------------------------
(* build_tree (stra2.py 52-68) *)

NoHeadingsFound == <<"N","o"," ","h","e","a","d","i","n","g","s"," ","f","o","u","n","d",".">>

\* int(tag[1]): Python indexes from 0
LevelOf(tag) == DigitVal(tag[2])

RECURSIVE MinOf(_)
MinOf(S) ==
    LET x == CHOOSE y \in S : TRUE
    IN IF S = {x} THEN x
       ELSE LET m == MinOf(S \ {x}) IN IF x < m THEN x ELSE m

MinLevel(structure) ==
    IF structure # <<>> THEN MinOf({LevelOf(structure[i][1]) : i \in DOMAIN structure}) ELSE 1

\* f"{indent}- {tag}: {text}\n"
TreeLine(node, min_level) ==
    LET level == LevelOf(node[1]) - min_level
        indent == Repeat(<<" ", " ">>, level)
    IN indent \o <<"-", " ">> \o node[1] \o <<":", " ">> \o node[2] \o <<"\n">>

build_tree(structure) ==
    IF structure = <<>> THEN NoHeadingsFound
    ELSE Concat([i \in DOMAIN structure |-> TreeLine(structure[i], MinLevel(structure))])

----------------------------------------------------------------------------
(* Bounds and the inputs of the model *)

MaxBatches == 1    \* batches with at least one URL per session
MaxNodes == 3      \* heading nodes given to build_tree
MaxElems == 2      \* elements of a fetched document

UrlA == <<"a">>
UrlB == <<"b">>

\* what the user types: nothing, one URL, one URL twice, two URLs with spaces around
\* and an empty line between
UrlInputs ==
    {<<>>,
     UrlA,
     Join(<<UrlA, UrlA>>, "\n"),
     Join(<<<<" ">> \o UrlB \o <<" ">>, <<>>, UrlA>>, "\n")}

\* a spreadsheet cell: empty (NaN) or a value
NaN == [isna |-> TRUE, v |-> <<>>]
Cell(v) == [isna |-> FALSE, v |-> v]

\* the uploaded file: None, a file pd.read_excel fails on, or a sheet of named columns
FileNone == [uploaded |-> FALSE, parses |-> FALSE, columns |-> <<>>]
FileCorrupt == [uploaded |-> TRUE, parses |-> FALSE, columns |-> <<>>]
Sheet(cols) == [uploaded |-> TRUE, parses |-> TRUE, columns |-> cols]
Column(name, cells) == [name |-> name, cells |-> cells]
Files ==
    {FileNone,
     FileCorrupt,
     Sheet(<<>>),
     Sheet(<<Column("A", <<NaN>>)>>),
     Sheet(<<Column("A", <<Cell(UrlA), NaN, Cell(UrlB)>>)>>),
     Sheet(<<Column("URL", <<Cell(UrlB), Cell(UrlB)>>)>>),
     Sheet(<<Column("URL", <<Cell(UrlB)>>), Column("A", <<Cell(UrlA)>>)>>)}

Seo == <<"s","e","o">>
SEO == <<"S","E","O">>

\* the keyword text area
KeywordInputs ==
    {<<>>,
     Join(<<H1, <<>>, <<" ">> \o SEO \o <<" ">>>>, "\n"),
     Join(<<Seo, <<"x">>, H1, SEO, <<"y">>, <<"z">>>>, "\n")}

El(name, attrs, text) == [name |-> name, attrs |-> attrs, text |-> text]
NoAttrs == [k \in {} |-> <<>>]
TitleName == <<"t","i","t","l","e">>
MetaName == <<"m","e","t","a">>
PName == <<"p">>

\* the text of the keyword example
ExampleText == <<"S","E","O"," ","s","e","o","-","t","o","o","l","s"," ","s","e","o",".">>

\* the pages of the model's web
PageA ==
    <<El(TitleName, NoAttrs, <<" ","T"," ">>),
      El(MetaName, [name |-> Description, content |-> <<"d"," ">>], <<>>),
      El(<<"h","2">>, NoAttrs, <<"S","e","o">>),
      El(<<"h","1">>, NoAttrs, <<"x"," ","s","e","o","-","y">>)>>

PageB ==
    <<El(MetaName, [name |-> Description], <<>>),
      El(<<"h","3">>, NoAttrs, <<" ","a","\n","b">>),
      El(PName, NoAttrs, <<"h","1",".">>)>>

PageOf(url) == IF url = UrlA THEN PageA ELSE PageB

ErrorStatuses == {404}

Ok(doc) == [raises |-> FALSE, status_code |-> 200, doc |-> doc, response |-> NoneObject]
Failure(response) == [raises |-> TRUE, status_code |-> 0, doc |-> <<>>, response |-> response]

\* what requests.get and raise_for_status can do for a URL
FetchOutcomes(url) ==
    {Ok(PageOf(url)), Failure(NoneObject)}
    \cup {Failure([status_code |-> c]) : c \in ErrorStatuses}

AllFetchOutcomes == FetchOutcomes(UrlA) \cup FetchOutcomes(UrlB)

----------------------------------------------------------------------------
(* The script body: keyword widgets (83-88), button handler (90-141) *)

NoResults == [present |-> FALSE, data |-> <<>>, structures |-> EmptyDict]
Results(d, st) == [present |-> TRUE, data |-> d, structures |-> st]

NoReturn == [url |-> <<>>, raised |-> FALSE, called |-> FALSE, ret |-> EmptyDict]
NoCollected == [firstSeen |-> <<>>, deduped |-> FALSE]

\* [x.strip() for x in text.split("\n") if x.strip()]
StrippedLines(text) ==
    LET parts == Split(text, "\n")
        stripped == [i \in DOMAIN parts |-> Strip(parts[i])]
    IN SelectSeq(stripped, LAMBDA x : x # <<>>)

\* l[:n]
Take(l, n) == SubSeq(l, 1, IF Len(l) < n THEN Len(l) ELSE n)

KeywordLimit == 5

\* lines 83-88
ParseKeywords(enable_keyword_search, keyword_input) ==
    IF enable_keyword_search /\ keyword_input # <<>>
    THEN Take(StrippedLines(keyword_input), KeywordLimit)
    ELSE <<>>

\* lines 94-95
ManualUrls(urls_input) == IF urls_input # <<>> THEN StrippedLines(urls_input) ELSE <<>>

\* df[col].dropna().astype(str).tolist()
ColumnValues(column) ==
    LET kept == SelectSeq(column.cells, LAMBDA c : ~c.isna)
    IN [i \in DOMAIN kept |-> kept[i].v]

HasColumnA(file) == \E i \in DOMAIN file.columns : file.columns[i].name = "A"

ColumnA(file) ==
    file.columns[CHOOSE i \in DOMAIN file.columns : file.columns[i].name = "A"]

\* the try block of lines 99-106 raises: read_excel fails, or iloc[:, 0] of a sheet
\* without columns
ExcelRaises(file) == ~file.parses \/ (~HasColumnA(file) /\ file.columns = <<>>)

\* lines 102 / 105: the URLs the sheet contributes
SheetUrls(file) ==
    IF HasColumnA(file) THEN ColumnValues(ColumnA(file)) ELSE ColumnValues(file.columns[1])

\* lines 91-108 up to the dedup: the URLs in input order
GatheredUrls(urls_input, file) ==
    IF file.uploaded /\ ~ExcelRaises(file)
    THEN ManualUrls(urls_input) \o SheetUrls(file)
    ELSE ManualUrls(urls_input)

\* line 106 runs: list(set(urls))
Deduped(file) == file.uploaded /\ ~ExcelRaises(file)

\* CollectedUrls with the dedup of line 106 moved out of the spreadsheet branch
CollectedUrls_AlwaysDedup(urls_input, file) ==
    Orderings(Range(GatheredUrls(urls_input, file)))

\* lines 91-108: the lists `urls` can be after the collection; list(set(...)) fixes
\* no order
CollectedUrls(urls_input, file) ==
    IF Deduped(file)
    THEN Orderings(Range(GatheredUrls(urls_input, file)))
    ELSE {GatheredUrls(urls_input, file)}

\* st.warning / st.error of lines 104, 108
ExcelNotices(file) ==
    IF ~file.uploaded THEN {}
    ELSE IF ~file.parses THEN {"excel_error"}
    ELSE IF HasColumnA(file) THEN {}
    ELSE IF file.columns = <<>> THEN {"no_column_A", "excel_error"}
    ELSE {"no_column_A"}

\* lines 119-131
BaseRow(url, ret) ==
    [k \in {ColURL, ColTitle, ColStatus, ColMeta, ColTotal} \cup Range(LevelTags) |->
        IF k = ColURL THEN url
        ELSE IF k = ColTitle THEN ret.page_title
        ELSE IF k = ColStatus THEN ret.status_code
        ELSE IF k = ColMeta THEN ret.meta_desc
        ELSE IF k = ColTotal THEN ret.total
        ELSE DictGet(ret.counts, k, 0)]

\* lines 134-136
RECURSIVE AddKeywordColumns(_, _, _)
AddKeywordColumns(row, keywords, keyword_counts) ==
    IF keywords = <<>> THEN row
    ELSE AddKeywordColumns(DictSet(row, Head(keywords), DictGet(keyword_counts, Head(keywords), 0)),
                           Tail(keywords), keyword_counts)

BuildRow(url, ret, enable_keyword_search, keywords) ==
    IF enable_keyword_search /\ keywords # <<>>
    THEN AddKeywordColumns(BaseRow(url, ret), keywords, ret.keyword_counts)
    ELSE BaseRow(url, ret)

\* ClickAnalyze with line 141 moved out of the else branch: the results are stored
\* also when there is no URL
ClickAnalyze_StoreAlways(urls_input, uploaded_file, enable_keyword_search, keyword_input) ==
    /\ pc = "idle"
    /\ GatheredUrls(urls_input, uploaded_file) # <<>> => batches < MaxBatches
    /\ \E collectedUrls \in CollectedUrls(urls_input, uploaded_file) :
          /\ urls' = collectedUrls
          /\ collected' = [firstSeen |-> Distinct(GatheredUrls(urls_input, uploaded_file)),
                           deduped |-> Deduped(uploaded_file)]
          /\ fetchLog' = <<>>
          /\ lastRet' = NoReturn
          /\ IF collectedUrls = <<>>
             THEN /\ notice' = ExcelNotices(uploaded_file) \cup {"no_urls"}
                  /\ idx' = 1
                  /\ session' = Results(<<>>, EmptyDict)
                  /\ UNCHANGED <<pc, data, structures, batches, kw, kwEnabled>>
             ELSE /\ notice' = ExcelNotices(uploaded_file)
                  /\ kwEnabled' = enable_keyword_search
                  /\ kw' = IF enable_keyword_search
                           THEN KeywordsList(ParseKeywords(enable_keyword_search, keyword_input))
                           ELSE KeywordsNone
                  /\ pc' = "loop"
                  /\ idx' = 1
                  /\ data' = <<>>
                  /\ structures' = EmptyDict
                  /\ batches' = batches + 1
                  /\ UNCHANGED session
    /\ UNCHANGED <<treeIn, treeOut, exIn, exOut>>

\* the click on "Analyze Headings": lines 83-114
ClickAnalyze(urls_input, uploaded_file, enable_keyword_search, keyword_input) ==
    /\ pc = "idle"
    /\ GatheredUrls(urls_input, uploaded_file) # <<>> => batches < MaxBatches
    /\ \E collectedUrls \in CollectedUrls(urls_input, uploaded_file) :
          /\ urls' = collectedUrls
          /\ collected' = [firstSeen |-> Distinct(GatheredUrls(urls_input, uploaded_file)),
                           deduped |-> Deduped(uploaded_file)]
          /\ fetchLog' = <<>>
          /\ lastRet' = NoReturn
          /\ IF collectedUrls = <<>>
             THEN /\ notice' = ExcelNotices(uploaded_file) \cup {"no_urls"}
                  /\ idx' = 1
                  /\ UNCHANGED <<pc, data, structures, batches, kw, kwEnabled>>
             ELSE /\ notice' = ExcelNotices(uploaded_file)
                  /\ kwEnabled' = enable_keyword_search
                  /\ kw' = IF enable_keyword_search
                           THEN KeywordsList(ParseKeywords(enable_keyword_search, keyword_input))
                           ELSE KeywordsNone
                  /\ pc' = "loop"
                  /\ idx' = 1
                  /\ data' = <<>>
                  /\ structures' = EmptyDict
                  /\ batches' = batches + 1
    /\ UNCHANGED <<session, treeIn, treeOut, exIn, exOut>>

\* line 117-118 / 15: the loop takes the next URL and requests.get is sent
StartFetch ==
    /\ pc = "loop"
    /\ idx <= Len(urls)
    /\ pc' = "fetching"
    /\ fetchLog' = Append(fetchLog, <<"start", urls[idx]>>)
    /\ UNCHANGED <<urls, idx, kw, kwEnabled, data, structures, session, notice, lastRet,
                   collected, batches, treeIn, treeOut, exIn, exOut>>

\* CompleteFetch without the except branch of get_headings: the exception ends the
\* handler, nothing is stored
CompleteFetch_Abort(outcome) ==
    /\ pc = "fetching"
    /\ outcome \in FetchOutcomes(urls[idx])
    /\ IF outcome.raises
       THEN /\ pc' = "idle"
            /\ fetchLog' = Append(fetchLog, <<"end", urls[idx]>>)
            /\ UNCHANGED <<idx, data, structures, lastRet, notice>>
       ELSE LET url == urls[idx]
                ret == get_headings(url, kw, outcome)
            IN /\ data' = Append(data, BuildRow(url, ret, kwEnabled, kw.list))
               /\ structures' = DictSet(structures, url, ret.structure)
               /\ lastRet' = [url |-> url, raised |-> outcome.raises, called |-> TRUE, ret |-> ret]
               /\ fetchLog' = Append(fetchLog, <<"end", url>>)
               /\ idx' = idx + 1
               /\ pc' = "loop"
               /\ UNCHANGED notice
    /\ UNCHANGED <<urls, kw, kwEnabled, session, collected, batches,
                   treeIn, treeOut, exIn, exOut>>

\* lines 15-50 and 118-139: the request ends, get_headings returns, the row is built
CompleteFetch(outcome) ==
    /\ pc = "fetching"
    /\ outcome \in FetchOutcomes(urls[idx])
    /\ LET url == urls[idx]
           ret == get_headings(url, kw, outcome)
       IN /\ data' = Append(data, BuildRow(url, ret, kwEnabled, kw.list))
          /\ structures' = DictSet(structures, url, ret.structure)
          /\ lastRet' = [url |-> url, raised |-> outcome.raises, called |-> TRUE, ret |-> ret]
          /\ fetchLog' = Append(fetchLog, <<"end", url>>)
          /\ notice' = IF outcome.raises THEN notice \cup {"fetch_error"} ELSE notice
    /\ idx' = idx + 1
    /\ pc' = "loop"
    /\ UNCHANGED <<urls, kw, kwEnabled, session, collected, batches,
                   treeIn, treeOut, exIn, exOut>>

\* line 141: the loop is over
StoreResults ==
    /\ pc = "loop"
    /\ idx > Len(urls)
    /\ session' = Results(data, structures)
    /\ pc' = "idle"
    /\ UNCHANGED <<urls, idx, kw, kwEnabled, data, structures, notice, fetchLog, lastRet,
                   collected, batches, treeIn, treeOut, exIn, exOut>>

NoTree == [done |-> FALSE, text |-> <<>>]
NoExtract == [done |-> FALSE, ret |-> EmptyDict]
NoExtractInput == [url |-> <<>>, keywords |-> KeywordsNone, outcome |-> Failure(NoneObject)]

DriverInit ==
    /\ pc = "idle"
    /\ urls = <<>>
    /\ idx = 1
    /\ kw = KeywordsNone
    /\ kwEnabled = FALSE
    /\ data = <<>>
    /\ structures = EmptyDict
    /\ session = NoResults
    /\ notice = {}
    /\ fetchLog = <<>>
    /\ lastRet = NoReturn
    /\ collected = NoCollected
    /\ batches = 0

TreeIdle == treeIn = <<>> /\ treeOut = NoTree

ExtractIdle == exIn = NoExtractInput /\ exOut = NoExtract

Init == DriverInit /\ TreeIdle /\ ExtractIdle

Next ==
    \/ \E urls_input \in UrlInputs, uploaded_file \in Files,
          enable_keyword_search \in BOOLEAN, keyword_input \in KeywordInputs :
          ClickAnalyze(urls_input, uploaded_file, enable_keyword_search, keyword_input)
    \/ StartFetch
    \/ \E outcome \in AllFetchOutcomes : CompleteFetch(outcome)
    \/ StoreResults

Spec == Init /\ [][Next]_vars

\* the batch with the scheduling of a sequential program: the loop goes on, a
\* request ends (by its answer or by the timeout of 10 s), the results are stored
FairSpec ==
    /\ Spec
    /\ WF_vars(StartFetch)
    /\ WF_vars(\E outcome \in AllFetchOutcomes : CompleteFetch(outcome))
    /\ WF_vars(StoreResults)

----------------------------------------------------------------------------
(* build_tree on its own: every structure within the bounds *)

TreeTexts == {<<>>, <<"a">>, <<"a", "\n", "b">>}

TreeNodes == {<<t, x>> : t \in Range(LevelTags), x \in TreeTexts}

TreeInit ==
    /\ DriverInit
    /\ ExtractIdle
    /\ treeIn \in SeqsUpTo(TreeNodes, MaxNodes)
    /\ treeOut = NoTree

Render ==
    /\ ~treeOut.done
    /\ treeOut' = [done |-> TRUE, text |-> build_tree(treeIn)]
    /\ UNCHANGED <<driverVars, treeIn, exIn, exOut>>

TreeSpec == TreeInit /\ [][Render]_vars

----------------------------------------------------------------------------
(* get_headings on its own: every document within the bounds *)

ElemChoices ==
    {El(TitleName, NoAttrs, <<" ", "T">>),
     El(MetaName, [name |-> Description, content |-> <<"d">>], <<>>),
     El(MetaName, [name |-> Description], <<>>),
     El(<<"h","1">>, NoAttrs, <<>>),
     El(<<"h","2">>, NoAttrs, <<"S","e","o","\n","x">>),
     El(<<"h","6">>, NoAttrs, <<" ","s","e","o","s"," ">>),
     El(PName, NoAttrs, ExampleText),
     El(PName, NoAttrs, <<"h","1","_","s","e","o"," ","H","1">>)}

KeywordArgs ==
    {KeywordsNone, KeywordsList(<<>>), KeywordsList(<<Seo>>), KeywordsList(<<SEO, H1>>),
     KeywordsList(<<<<" ">>, Seo>>)}

ExtractOutcomes ==
    {Ok(doc) : doc \in SeqsUpTo(ElemChoices, MaxElems)}
    \cup {Failure(NoneObject)}
    \cup {Failure([status_code |-> c]) : c \in {404, 503}}

ExtractInit ==
    /\ DriverInit
    /\ TreeIdle
    /\ exIn \in [url : {UrlA}, keywords : KeywordArgs, outcome : ExtractOutcomes]
    /\ exOut = NoExtract

Extract ==
    /\ ~exOut.done
    /\ exOut' = [done |-> TRUE, ret |-> get_headings(exIn.url, exIn.keywords, exIn.outcome)]
    /\ UNCHANGED <<driverVars, treeIn, treeOut, exIn>>

ExtractSpec == ExtractInit /\ [][Extract]_vars

----------------------------------------------------------------------------
(* Properties *)

RECURSIVE SumSeq(_)
SumSeq(q) == IF q = <<>> THEN 0 ELSE Head(q) + SumSeq(Tail(q))

\* number of positions of a list that satisfy P
CountIf(q, P(_)) == Cardinality({i \in DOMAIN q : P(q[i])})

\* C2: a failed fetch does not raise: get_headings returns title "Error", meta
\* description "Error", total 0, every level count 0, no heading, no keyword count,
\* and as status the status code of the failure's response, 0 when it has none.
C2_DegradedReportOnFailure ==
    (exOut.done /\ exIn.outcome.raises) =>
        /\ exOut.ret.page_title = ErrorText
        /\ exOut.ret.meta_desc = ErrorText
        /\ exOut.ret.total = 0
        /\ \A t \in Range(LevelTags) : DictGet(exOut.ret.counts, t, 0) = 0
        /\ exOut.ret.structure = <<>>
        /\ DOMAIN exOut.ret.keyword_counts = {}
        /\ exOut.ret.status_code =
              (IF "status_code" \in DOMAIN exIn.outcome.response
               THEN exIn.outcome.response.status_code
               ELSE 0)

C2_Witness ==
    /\ exOut.done
    /\ exIn.outcome.raises
    /\ "status_code" \in DOMAIN exIn.outcome.response
    /\ exOut.ret.status_code = 503
    /\ exIn.keywords.list # <<>>

\* C4: in every result of get_headings, of a document or of a failure, the level
\* counts sum to the total, and the total is the length of the heading sequence.
C4_CountsSumToTotal ==
    exOut.done =>
        /\ SumSeq([i \in DOMAIN LevelTags |-> DictGet(exOut.ret.counts, LevelTags[i], 0)])
              = exOut.ret.total
        /\ exOut.ret.total = Len(exOut.ret.structure)

C4_Witness ==
    /\ exOut.done
    /\ ~exIn.outcome.raises
    /\ exOut.ret.total = 2
    /\ exOut.ret.counts[H1] = 1
    /\ exOut.ret.counts[H6] = 1
    /\ Len(exIn.outcome.doc) = 2

\* the starts of the occurrences of w in text with no word character next to them
WholeWordStarts(text, w) ==
    {p \in 1..(Len(text) - Len(w) + 1) :
        /\ SubSeq(text, p, p + Len(w) - 1) = w
        /\ (p = 1 \/ ~IsWordChar(text[p - 1]))
        /\ (p + Len(w) > Len(text) \/ ~IsWordChar(text[p + Len(w)]))}

OnlyWordChars(w) == w # <<>> /\ \A i \in DOMAIN w : IsWordChar(w[i])

IsExample == GetText(exIn.outcome.doc) = ExampleText /\ Seo \in DOMAIN exOut.ret.keyword_counts

OutputLines(text) ==
    LET parts == Split(text, "\n") IN SubSeq(parts, 1, Len(parts) - 1)

RECURSIVE LeadingSpaces(_)
LeadingSpaces(line) ==
    IF line # <<>> /\ Head(line) = " " THEN 1 + LeadingSpaces(Tail(line)) ELSE 0

IndentUnits(structure, i) == LevelOf(structure[i][1]) - MinLevel(structure)

LinePerNode(structure, text) ==
    LET lines == OutputLines(text)
    IN /\ Len(lines) = Len(structure)
       /\ \A i \in DOMAIN structure :
             /\ IndentUnits(structure, i) >= 0
             /\ LeadingSpaces(lines[i]) = 2 * IndentUnits(structure, i)
             /\ SubSeq(lines[i], LeadingSpaces(lines[i]) + 1, Len(lines[i]))
                   = <<"-", " ">> \o structure[i][1] \o <<":", " ">> \o structure[i][2]
       /\ \E i \in DOMAIN lines : LeadingSpaces(lines[i]) = 0

\* C5: build_tree of a non-empty structure gives one line per node, in order: two
\* spaces for every level above the lowest level of the structure, "- ", the tag,
\* ": ", the text; no indent is negative and one line has none.
C5_OneLinePerNode ==
    (treeOut.done /\ treeIn # <<>>) => LinePerNode(treeIn, treeOut.text)

NoLineBreaks(structure) == \A i \in DOMAIN structure : "\n" \notin Range(structure[i][2])

\* What holds of build_tree in place of C5: the lines are as C5 says for a structure
\* whose texts hold no line break.
C5_LinePerNodeWithoutBreaks ==
    (treeOut.done /\ treeIn # <<>> /\ NoLineBreaks(treeIn)) => LinePerNode(treeIn, treeOut.text)

\* C1: in a batch a URL is fetched once and has one row, however often it was given.
C1_OneFetchPerDistinctUrl ==
    \A u \in Range(urls) :
        /\ CountIf(fetchLog, LAMBDA e : e = <<"start", u>>) <= 1
        /\ CountIf(data, LAMBDA row : row[ColURL] = u) <= 1

BatchStored ==
    /\ session.present
    /\ CountIf(fetchLog, LAMBDA e : e[1] = "end") = Len(urls)
    /\ Len(session.data) = Len(urls)
    /\ \A u \in Range(urls) :
          /\ \E i \in DOMAIN fetchLog : fetchLog[i] = <<"end", u>>
          /\ \E i \in DOMAIN session.data : session.data[i][ColURL] = u
          /\ u \in DOMAIN session.structures

\* C3: a batch that starts runs to its end whatever fetch fails: every URL of the
\* list is fetched, and the stored results hold a row and a structure for each.
C3_BatchRunsToEnd == (pc = "loop" /\ idx = 1) ~> (pc = "idle" /\ BatchStored)

C3_Witness ==
    /\ pc = "idle"
    /\ BatchStored
    /\ Len(session.data) = 2
    /\ session.data[1][ColTitle] = ErrorText
    /\ session.data[2][ColTitle] # ErrorText

KeywordKeys == DOMAIN lastRet.ret.keyword_counts

\* C7 as stated: with keyword search enabled the keys of keywordCounts are the input
\* keywords as typed, for a fetch that succeeds and for one that fails; disabled, none.
C7_KeysAlways ==
    lastRet.called => KeywordKeys = (IF kwEnabled THEN Range(kw.list) ELSE {})

\* C7 as amended: the keys of keywordCounts are the input keywords as typed when
\* keyword search is enabled and the fetch succeeds; keywordCounts is empty when
\* keyword search is disabled and whenever the fetch fails.
C7_KeysOnSuccess ==
    lastRet.called =>
        KeywordKeys = (IF kwEnabled /\ ~lastRet.raised THEN Range(kw.list) ELSE {})

C7_Witness ==
    /\ lastRet.called
    /\ kwEnabled
    /\ ~lastRet.raised
    /\ KeywordKeys = {SEO, H1}

EndedBefore(u, v) ==
    \A j \in DOMAIN fetchLog :
        fetchLog[j] = <<"start", v>> => \E i \in 1..(j - 1) : fetchLog[i] = <<"end", u>>

\* C8 as stated: of two URLs the one that comes first in the input (text lines, then
\* spreadsheet rows) is fetched, to its end, before the fetch of the other starts.
C8_FetchedInInputOrder ==
    \A i, j \in DOMAIN collected.firstSeen :
        i < j => EndedBefore(collected.firstSeen[i], collected.firstSeen[j])

\* the events of the loop at position i of the list, the fetch of urls[i] under way
\* or not
RECURSIVE LogOf(_, _, _)
LogOf(list, i, underWay) ==
    IF i = 0 THEN <<>>
    ELSE IF underWay THEN LogOf(list, i - 1, FALSE) \o <<<<"start", list[i]>>>>
    ELSE LogOf(list, i - 1, FALSE) \o <<<<"start", list[i]>>, <<"end", list[i]>>>>

IsOrderingOf(list, S) == Range(list) = S /\ Len(list) = Cardinality(S)

\* C8 as amended: the URLs are fetched one at a time, each to its end before the
\* next starts, in the order of the collected list. That order is the input order
\* when no spreadsheet was read; after the dedup of a spreadsheet that was read,
\* the list holds each URL once in an order the input does not fix.
C8_SequentialInListOrder ==
    /\ fetchLog = IF pc = "fetching" THEN LogOf(urls, idx, TRUE) ELSE LogOf(urls, idx - 1, FALSE)
    /\ IF collected.deduped
       THEN IsOrderingOf(urls, Range(collected.firstSeen))
       ELSE Distinct(urls) = collected.firstSeen

C8_Witness ==
    /\ collected.deduped
    /\ collected.firstSeen = <<UrlA, UrlB>>
    /\ fetchLog = <<<<"start", UrlB>>, <<"end", UrlB>>, <<"start", UrlA>>>>

\* C9: a submission without a usable URL warns and does nothing else: no fetch, and
\* the results an earlier submission stored stay as they are.
C9_EmptySubmissionIsNoOp ==
    [][(pc = "idle" /\ pc' = "idle") =>
          /\ "no_urls" \in notice'
          /\ fetchLog' = <<>>
          /\ session' = session]_vars

C9_Witness ==
    /\ pc = "idle"
    /\ session.present
    /\ session.data # <<>>
    /\ notice = {"excel_error", "no_urls"}
    /\ fetchLog = <<>>

\* C10: the fixed columns of a row hold what get_headings returned for the URL,
\* whatever the keywords are, so Total Headings is the sum of H1..H6 of the row.
C10_FixedColumnsKeepValues ==
    (lastRet.called /\ data # <<>>) =>
        LET row == data[Len(data)]
            ret == lastRet.ret
        IN /\ row[ColURL] = lastRet.url
           /\ row[ColTitle] = ret.page_title
           /\ row[ColStatus] = ret.status_code
           /\ row[ColMeta] = ret.meta_desc
           /\ row[ColTotal] = ret.total
           /\ \A t \in Range(LevelTags) : row[t] = DictGet(ret.counts, t, 0)
           /\ row[ColTotal] = SumSeq([i \in DOMAIN LevelTags |-> row[LevelTags[i]]])

====
